---- MODULE Spec2Model ----
(***************************************************************************)
(* Adaptive graphics renderer selection (GraphicsManager), the backends'   *)
(* frame loops (WebGPU*field, WebGLStarfield) and the particle update rule *)
(* of the GPU compute shaders.                                              *)
(*                                                                         *)
(* The repository holds two revisions of the selector:                     *)
(*   "part_003"          src/unnamed/part_003                              *)
(*   "graphics_manager"  src/src/types/graphics-manager.ts                 *)
(* The variable build says which one runs; it never changes.               *)
(*                                                                         *)
(* JavaScript runs one task at a time, so every action below is one        *)
(* synchronous stretch of code: from an event (a promise settling, a frame *)
(* callback, a DOM event, a public method call) to the next real           *)
(* suspension.  An await on an already settled promise only yields to the  *)
(* microtask queue and is part of the same action.                         *)
(***************************************************************************)
EXTENDS Integers, Sequences, FiniteSets, TLC

VARIABLES
  build,              \* revision of the selector
  caps,               \* GraphicsManager.capabilities
  batteryApi,         \* navigator.getBattery: absent, rejecting, or resolving with a level (percent)
  dom,                \* which canvases the page has
  theme,              \* document.documentElement.dataset.theme
  pc,                 \* where GraphicsManager.init() stands
  currentRenderer,    \* GraphicsManager.currentRenderer
  starfieldInstance,  \* GraphicsManager.starfieldInstance: index into backends, 0 = null
  backends,           \* every backend instance constructed so far, in construction order
  gpuChoice,          \* variant picked by initWebGPUSpritefield
  shown,              \* the tier container that is not hidden (showRenderer)
  opacity,            \* opacity of #adaptive-graphics-container
  observing,          \* the selector's theme MutationObserver is installed
  monitorOn,          \* the performance monitor has a frame callback pending
  windows,            \* 5-second windows the monitor has completed
  pendingFallbacks,   \* fallbackToWebGL() calls still awaiting the module import
  managerDestroyed,   \* GraphicsManager.destroy() has been called
  frames,             \* backend frame callbacks run so far
  gpuAttempts,        \* history: calls of initWebGPUSpritefield
  gpuResult,          \* history: outcome of the GPU attempt of selectRenderer
  cpuResult,          \* history: outcome of initWebGLStarfield inside selectRenderer
  fallbackWebGLCalls, \* history: calls of fallbackToWebGL
  fallbackCSSCalls,   \* history: calls of fallbackToCSS
  variant,            \* compute shader under study: which GPU backend's computeMain
  index,              \* global_invocation_id.x of the invocation under study
  particle,           \* the record stars[index] / snows[index] / lasers[index]
  uniforms,           \* the Uniforms value the shader reads
  hash,               \* fract(sin(f32(index) * k) * 43758.5453) for each multiplier k
  prev,               \* the record before the last compute step
  respawned,          \* the last compute step took the respawn branch
  steps,              \* compute steps run so far
  respawnLog,         \* history: what each respawn wrote, and the pointer position then
  innerWidth,         \* window.innerWidth when the last backend was constructed
  starCount,          \* the count handed to that backend's constructor
  population,         \* the count that backend keeps (starCount / snowCount / laserCount)
  lone,               \* a GPU backend instance driven on its own, outside the selector
  navigatorGpu,       \* navigator.gpu is defined when the lone backend runs init()
  initPc,             \* where the lone backend's init() stands
  initWhy,            \* the branch by which that init() left
  initResult,         \* what that init() settled to
  destroyedAt,        \* history: where init() stood when destroy() was first called
  gl,                 \* a WebGLStarfield instance driven on its own, with its observers
  mousePos,           \* this.mousePos of a GPU backend whose render loop runs
  uniformData,        \* the Float32Array(12) its render() writes to the uniform buffer
  storage,            \* the storage buffer and initial data its setupWebGPU allocates
  animationId         \* its pending frame request: 0 none, else the handle

mvars == <<build, caps, batteryApi, dom, theme, pc, currentRenderer,
           starfieldInstance, backends, gpuChoice, shown, opacity, observing,
           monitorOn, windows, pendingFallbacks, managerDestroyed, frames,
           gpuAttempts, gpuResult, cpuResult, fallbackWebGLCalls, fallbackCSSCalls>>

pvars == <<variant, index, particle, uniforms, hash, prev, respawned, steps,
           respawnLog>>

cvars == <<innerWidth, starCount, population>>

bvars == <<lone, navigatorGpu, initPc, initWhy, initResult, destroyedAt>>

wvars == <<gl>>

fvars == <<mousePos, uniformData, storage, animationId>>

vars == <<mvars, pvars, cvars, bvars, wvars, fvars>>

-----------------------------------------------------------------------------
(* Bounds *)

MaxWindows == 2          \* monitor windows explored
MaxFrames == 1           \* backend frame callbacks explored
MaxIndex == 1            \* largest particle index explored
MaxSteps == 2            \* compute steps explored per particle
HashGrid == 2            \* a fract() value is one of 0/HashGrid .. HashGrid/HashGrid

-----------------------------------------------------------------------------
(* Values *)

Undefined == 0 - 1       \* capabilities.batteryLevel === undefined

Builds == {"part_003", "graphics_manager"}

\* battery levels in percent; 15 is the threshold 0.15 of selectRenderer
BatteryLevels == {0, 10, 15}

\* values of parseInt(String(Math.random() * 100)) on both sides of the split
RandomDraws == {0, 49, 50, 99}

\* frames per second a 5-second window can measure: below 20, 20..29, 30 and above
FpsSamples == {10, 25, 60}

\* navigator.getBattery is missing, rejects, or resolves with a level
BatteryApis ==
  {[state |-> "absent", level |-> 0], [state |-> "rejects", level |-> 0]}
  \cup {[state |-> "resolves", level |-> l] : l \in BatteryLevels}

GPUKinds == {"Starfield", "Snowfield", "Laserfield"}

IsGPU(kind) == kind \in GPUKinds

-----------------------------------------------------------------------------
(* Backend instances.  rafId is 0 or 1, where 1 stands for any non-zero     *)
(* handle returned by requestAnimationFrame (animationId of the GPU         *)
(* backends, rafId of WebGLStarfield); scheduled says that a frame callback *)
(* of the instance is in the browser's callback list; destroyed records     *)
(* that destroy() was called on it; listening that its resize listener is   *)
(* attached to window.                                                      *)

NewBackend(kind) ==
  [kind |-> kind, rafId |-> 0, scheduled |-> FALSE, destroyed |-> FALSE,
   listening |-> FALSE, isVisible |-> TRUE]

\* WebGPU*field.render: the tail of every frame requests the next one
GpuRender(b) == [b EXCEPT !.rafId = 1, !.scheduled = TRUE]

\* WebGPU*field.init from the resolved device on: setupWebGPU,
\* setupEventListeners, render
GpuInitTail(b) == GpuRender([b EXCEPT !.listening = TRUE])

\* WebGPU*field.destroy: cancels the handle it holds, if it holds one
GpuDestroy(b) ==
  [b EXCEPT !.scheduled = IF b.rafId # 0 THEN FALSE ELSE b.scheduled,
            !.destroyed = TRUE]

\* WebGLStarfield.start
WebGLStart(b) ==
  IF b.rafId > 0 THEN b ELSE [b EXCEPT !.rafId = 1, !.scheduled = TRUE]

\* WebGLStarfield.stop
WebGLStop(b) ==
  IF b.rafId > 0 THEN [b EXCEPT !.rafId = 0, !.scheduled = FALSE] ELSE b

\* WebGLStarfield.shouldAnimate
ShouldAnimate(b, th) == th = "dark" /\ b.isVisible /\ b.rafId = 0

\* WebGLStarfield.handleResize
HandleResize(b, th) ==
  LET s == WebGLStop(b) IN IF ShouldAnimate(s, th) THEN WebGLStart(s) ELSE s

\* WebGLStarfield.init with both observers disabled, as the selector
\* constructs it: setupCanvas, setupEventListeners, start
WebGLInit(b) == WebGLStart([b EXCEPT !.listening = TRUE])

\* WebGLStarfield.frame: draws and requests the next frame
WebGLFrame(b) == [b EXCEPT !.rafId = 1, !.scheduled = TRUE]

\* WebGLStarfield.destroy: stop(); removeEventListener is handed a fresh
\* handleResize.bind(this), which is not the listener that was added, so the
\* resize listener stays attached
WebGLDestroy(b) == [WebGLStop(b) EXCEPT !.destroyed = TRUE]

\* StarfieldRenderer.destroy, by the class of the instance
BackendDestroy(b) == IF IsGPU(b.kind) THEN GpuDestroy(b) ELSE WebGLDestroy(b)

\* the frame callback of an instance
BackendFrame(b) == IF IsGPU(b.kind) THEN GpuRender(b) ELSE WebGLFrame(b)

\* the resize listener of an instance (the GPU backends' resize() only sets
\* the canvas size)
BackendResize(b, th) ==
  IF b.listening /\ ~IsGPU(b.kind) THEN HandleResize(b, th) ELSE b

\* `if (this.starfieldInstance?.destroy) this.starfieldInstance.destroy()`
DestroyCurrent(bs, inst) ==
  IF inst = 0 THEN bs ELSE [bs EXCEPT ![inst] = BackendDestroy(bs[inst])]

-----------------------------------------------------------------------------
(* The decision policy of selectRenderer *)

\* mutant: the reduced-motion preference only counts without WebGPU
ReducedMotionRuleGpuFirst(c) == c.prefersReducedMotion /\ ~c.supportsWebGPU

\* rule 1
ReducedMotionRule(c) == c.prefersReducedMotion

\* mutant: threshold 0.10 instead of 0.15
LowBatteryRuleTenPercent(c) == c.batteryLevel # Undefined /\ c.batteryLevel < 10

\* rule 2: batteryLevel !== undefined && batteryLevel < 0.15
LowBatteryRule(c) == c.batteryLevel # Undefined /\ c.batteryLevel < 15

\* mutant: the WebGPU path is closed to mobile devices
GpuRuleDesktopOnly(bld, c) ==
  IF bld = "part_003"
    THEN c.supportsWebGPU /\ ~c.isLowEnd /\ ~c.isMobile
    ELSE c.supportsWebGPU /\ c.hasGoodGPU /\ ~c.isLowEnd /\ ~c.isMobile

\* rule 3: the condition of the WebGPU path
GpuRule(bld, c) ==
  IF bld = "part_003"
    THEN c.supportsWebGPU /\ ~c.isLowEnd
    ELSE c.supportsWebGPU /\ c.hasGoodGPU /\ ~c.isLowEnd

\* mutant: a device that supports WebGPU goes to css when the GPU path fails
TriesWebGLUnsupportedOnly(bld, c) ==
  IF bld = "part_003"
    THEN ~c.supportsWebGPU
    ELSE ~c.isMobile \/ c.hasGoodGPU

\* mutant: `&&` for `||` between the two reasons for css on mobile
TriesWebGLBothReasons(bld, c) ==
  IF bld = "part_003"
    THEN ~(c.isMobile /\ (~c.supportsWebGPU /\ c.isLowEnd))
    ELSE ~c.isMobile \/ c.hasGoodGPU

\* what follows the WebGPU block: TRUE when initWebGLStarfield is tried,
\* FALSE when the css tier is taken at once
TriesWebGL(bld, c) ==
  IF bld = "part_003"
    THEN ~(c.isMobile /\ (~c.supportsWebGPU \/ c.isLowEnd))
    ELSE ~c.isMobile \/ c.hasGoodGPU

\* the values of parseInt(String(Math.random() * 100))
DrawRange == 0 .. 99

\* mutant: the split is at 49
PickVariantOffByOne(bld, random) ==
  IF random < 49
    THEN (IF bld = "part_003" THEN "Laserfield" ELSE "Starfield")
    ELSE "Snowfield"

\* initWebGPUSpritefield: the variant a draw selects
PickVariant(bld, random) ==
  IF random < 50
    THEN (IF bld = "part_003" THEN "Laserfield" ELSE "Starfield")
    ELSE "Snowfield"

\* mutant: the CPU path constructs a GPU backend again
CpuBackendKindGpu == "Snowfield"

\* the class fallbackToWebGL / initWebGLStarfield constructs
CpuBackendKind == "WebGL"

\* mutant: the container is shown under the dark theme whatever the tier
OpacityDarkOnly(th, cr) == IF th = "dark" THEN 1 ELSE 0

\* setupThemeObserver.updateVisibility
Opacity(th, cr) == IF th = "dark" /\ cr # "none" THEN 1 ELSE 0

\* setupPerformanceMonitoring: whether the monitor is started
MonitorStarts(cr) == cr # "css" /\ cr # "none"

\* monitor: which fallback a completed window triggers
WindowFallback(fps, cr) ==
  IF fps < 30 /\ cr = "webgpu" THEN "webgl"
  ELSE IF fps < 20 /\ cr = "webgl" THEN "css"
  ELSE "none"

\* viewport widths on both sides of the 768px threshold
Widths == {767, 768, 1280}

Min(a, b) == IF a < b THEN a ELSE b

\* mutant: the mobile tier is tested before the low-end tier
GetSpriteCountMobileFirst(c) ==
  IF c.isMobile THEN 400 ELSE IF c.isLowEnd THEN 200 ELSE 800

\* getSpriteCount
GetSpriteCount(c) == IF c.isLowEnd THEN 200 ELSE IF c.isMobile THEN 400 ELSE 800

\* WebGPU*field constructor: Math.min(count, innerWidth < 768 ? 400 : 800)
GpuPopulation(n, w) == Min(n, IF w < 768 THEN 400 ELSE 800)

\* the count an instance keeps; WebGLStarfield keeps options.starCount as handed
BackendPopulation(kind, n, w) == IF IsGPU(kind) THEN GpuPopulation(n, w) ELSE n

\* init(): the battery step's effect on capabilities.batteryLevel
BatteryStep(c, api) ==
  IF api.state = "rejects" THEN [c EXCEPT !.batteryLevel = 100]
  ELSE IF api.level > 0 THEN [c EXCEPT !.batteryLevel = api.level]
  ELSE c


-----------------------------------------------------------------------------
(* The particle update rule: computeMain of the three compute shaders.      *)
(* Lengths and speeds are integers in millionths; the pointer position is   *)
(* in thousandths of the canvas.                                            *)

Unit == 1000 * 1000

Abs(n) == IF n < 0 THEN 0 - n ELSE n

\* the multipliers of f32(index) in the respawn branch: 45.678 (depth),
\* 12.9898 (x), 78.233 (y), 91.3737 (velocity.z)
HashSeeds == {"depth", "x", "y", "vz"}

\* fract(e) = e - floor(e) lies in [0, 1], and sin has an implementation-
\* defined precision: for one index each multiplier gives some fixed point of
\* the grid 0 .. HashGrid, standing for 0/HashGrid .. HashGrid/HashGrid
HashTables == [HashSeeds -> 0 .. HashGrid]

\* The compute shader of WebGPULaserfield reads uniforms.laserCount, which
\* Uniforms does not declare, and stores `stars[index] = star`, two names it
\* does not declare: the module is invalid and its pipeline never runs.
ShaderCompiles(v) == v # "Laserfield"

\* `if (index >= u32(uniforms.starCount)) { return; }`
Skipped(v, i, u) == ~ShaderCompiles(v) \/ i >= u.count

\* position + velocity * dt, dt = 0.016
Advance(s) ==
  [s EXCEPT !.position =
     [x |-> s.position.x + (s.velocity.x * 16) \div 1000,
      y |-> s.position.y + (s.velocity.y * 16) \div 1000,
      z |-> s.position.z + (s.velocity.z * 16) \div 1000]]

\* mouseNorm = (mousePos * 2.0 - 1.0) * (1.0, -1.0); attraction = mouseNorm *
\* 0.001 is added to velocity.xy
Attract(s, u) ==
  [s EXCEPT !.velocity =
     [x |-> s.velocity.x + (u.mousePos.x * 2 - 1000),
      y |-> s.velocity.y - (u.mousePos.y * 2 - 1000),
      z |-> s.velocity.z]]

\* mutant: the y bound is forgotten
OffScreenNoY(p) == p.z > Unit \/ Abs(p.x) > 2 * Unit

\* the respawn condition
OffScreen(p) == p.z > Unit \/ Abs(p.x) > 2 * Unit \/ Abs(p.y) > 2 * Unit

\* mutant: the depth is drawn from [0, 1], without the 0.3 floor
NewDepthNoFloor(h) == (h["depth"] * Unit) \div HashGrid

\* newDepth = 0.3 + fract(..45.678..) * 0.7
NewDepth(h) == 3 * (Unit \div 10) + (h["depth"] * 7 * (Unit \div 10)) \div HashGrid

\* the position a respawn writes
RespawnPosition(v, h) ==
  IF v = "Starfield"
    THEN \* ((fract - 0.5) * 4.0, (fract - 0.5) * 4.0, 0.0)
         [x |-> ((2 * h["x"] - HashGrid) * 2 * Unit) \div HashGrid,
          y |-> ((2 * h["y"] - HashGrid) * 2 * Unit) \div HashGrid,
          z |-> 0]
    ELSE \* ((fract - 0.5) * 2.0 * newDepth, (fract - 0.5) * 2.0 * newDepth, newDepth)
         [x |-> ((2 * h["x"] - HashGrid) * NewDepth(h)) \div HashGrid,
          y |-> ((2 * h["y"] - HashGrid) * NewDepth(h)) \div HashGrid,
          z |-> NewDepth(h)]

\* mutant: the respawn leaves the velocity as the pointer attraction made it
RespawnKeepsVelocity(v, s, h) ==
  [s EXCEPT !.position = RespawnPosition(v, h), !.life = Unit]

\* the velocity a respawn writes: (0, 0, 0.1 + fract(..91.3737..) * 0.05)
RespawnVelocity(h) ==
  [x |-> 0, y |-> 0, z |-> Unit \div 10 + (h["vz"] * 5 * (Unit \div 100)) \div HashGrid]

Respawn(v, s, h) ==
  [s EXCEPT !.position = RespawnPosition(v, h),
            !.velocity = RespawnVelocity(h),
            !.life = Unit]

\* computeMain takes the respawn branch
Respawns(v, i, s, u) == ~Skipped(v, i, u) /\ OffScreen(Advance(s).position)

\* computeMain: the record it leaves at its index
ComputeMain(v, i, s, u, h) ==
  IF Skipped(v, i, u) THEN s
  ELSE IF Respawns(v, i, s, u) THEN Respawn(v, Attract(Advance(s), u), h)
  ELSE Attract(Advance(s), u)

\* particle records the explored steps start from
StartParticles ==
  [position : [x : {0 - 21 * (Unit \div 10), 0}, y : {0, 21 * (Unit \div 10)},
               z : {998 * (Unit \div 1000), 15 * (Unit \div 10)}],
   velocity : [x : {0}, y : {0}, z : {Unit \div 10, 15 * (Unit \div 100)}],
   life : {Unit \div 2, Unit}]

\* pointer positions, in thousandths of the canvas: a corner, and a point
\* right of and above the centre
PointerPositions == {[x |-> 0, y |-> 0], [x |-> 1000, y |-> 250]}

UniformValues ==
  [mousePos : {[x |-> 0, y |-> 0], [x |-> 1000, y |-> 250]},
   count : {0, MaxIndex + 1}]

\* the selector's state while only a compute shader is studied
NoManager ==
  /\ build = "part_003"
  /\ batteryApi = [state |-> "absent", level |-> 0]
  /\ caps = [isLowEnd |-> FALSE, isMobile |-> FALSE, supportsWebGPU |-> TRUE,
             prefersReducedMotion |-> FALSE, hasGoodGPU |-> FALSE,
             batteryLevel |-> 100]
  /\ dom = [webgpuCanvas |-> TRUE, webglCanvas |-> TRUE]
  /\ theme = "dark"
  /\ pc = "new"
  /\ currentRenderer = "none"
  /\ starfieldInstance = 0
  /\ backends = << >>
  /\ gpuChoice = "none"
  /\ shown = "none"
  /\ opacity = 0
  /\ observing = FALSE
  /\ monitorOn = FALSE
  /\ windows = 0
  /\ pendingFallbacks = 0
  /\ managerDestroyed = FALSE
  /\ frames = 0
  /\ gpuAttempts = 0
  /\ gpuResult = "none"
  /\ cpuResult = "none"
  /\ fallbackWebGLCalls = 0
  /\ fallbackCSSCalls = 0

\* the compute variables while the selector is studied
NoCompute ==
  /\ variant = "Snowfield"
  /\ index = 0
  /\ particle = [position |-> [x |-> 0, y |-> 0, z |-> Unit \div 2],
                 velocity |-> [x |-> 0, y |-> 0, z |-> Unit \div 10],
                 life |-> Unit]
  /\ uniforms = [mousePos |-> [x |-> 0, y |-> 0], count |-> 0]
  /\ hash = [k \in HashSeeds |-> 0]
  /\ prev = particle
  /\ respawned = FALSE
  /\ steps = 0
  /\ respawnLog = << >>

\* no backend constructed yet
NoCounts ==
  /\ innerWidth = 0
  /\ starCount = 0
  /\ population = 0

\* no WebGLStarfield is driven on its own
NoWebGL == gl = [phase |-> "absent"]

\* no GPU render loop is studied
NoFrame ==
  /\ mousePos = [x |-> 0, y |-> 0]
  /\ uniformData = << >>
  /\ storage = [bytes |-> 0, floats |-> 0]
  /\ animationId = 0

\* the lone-backend variables while the selector or a shader is studied
NoLoneBackend ==
  /\ lone = NewBackend("Snowfield")
  /\ navigatorGpu = TRUE
  /\ initPc = "new"
  /\ initWhy = "none"
  /\ initResult = "none"
  /\ destroyedAt = "never"

ComputeInit ==
  /\ variant \in GPUKinds
  /\ index \in 0 .. MaxIndex
  /\ particle \in StartParticles
  /\ uniforms \in UniformValues
  /\ hash \in HashTables
  /\ prev = particle
  /\ respawned = FALSE
  /\ steps = 0
  /\ respawnLog = << >>
  /\ NoManager
  /\ NoCounts
  /\ NoLoneBackend
  /\ NoWebGL
  /\ NoFrame

\* the respawn history after a step that left record s under pointer m
Logged(log, resp, s, m) ==
  IF resp /\ Len(log) < MaxSteps
    THEN Append(log, [position |-> s.position, velocity |-> s.velocity,
                      life |-> s.life, mousePos |-> m])
    ELSE log

\* one dispatch: the invocation with this index runs computeMain
ComputeStep ==
  /\ steps < MaxSteps
  /\ steps' = steps + 1
  /\ prev' = particle
  /\ particle' = ComputeMain(variant, index, particle, uniforms, hash)
  /\ respawned' = Respawns(variant, index, particle, uniforms)
  /\ respawnLog' = Logged(respawnLog, respawned', particle', uniforms.mousePos)
  /\ UNCHANGED <<variant, index, uniforms, hash>>
  /\ UNCHANGED <<mvars, cvars, bvars, wvars, fvars>>

\* the pointer moves between two dispatches: the next uniform write carries
\* another mousePos
ComputePointer ==
  /\ steps < MaxSteps
  /\ \E m \in PointerPositions \ {uniforms.mousePos} :
       uniforms' = [uniforms EXCEPT !.mousePos = m]
  /\ UNCHANGED <<variant, index, particle, hash, prev, respawned, steps, respawnLog>>
  /\ UNCHANGED <<mvars, cvars, bvars, wvars, fvars>>

ComputeNext == ComputeStep \/ ComputePointer

SpecCompute == ComputeInit /\ [][ComputeNext]_vars

-----------------------------------------------------------------------------
(* Initial state: a constructed GraphicsManager, init() not yet called *)

TypeCaps ==
  [isLowEnd : BOOLEAN, isMobile : BOOLEAN, supportsWebGPU : BOOLEAN,
   prefersReducedMotion : BOOLEAN, hasGoodGPU : BOOLEAN,
   batteryLevel : {Undefined, 100}]

ManagerInit ==
  /\ build \in Builds
  /\ batteryApi \in BatteryApis
  /\ caps \in TypeCaps
  \* detectCapabilities: batteryLevel: nav.getBattery ? undefined : 1
  /\ caps.batteryLevel = (IF batteryApi.state = "absent" THEN 100 ELSE Undefined)
  \* part_003 detects no hasGoodGPU
  /\ (build = "part_003" => caps.hasGoodGPU = FALSE)
  /\ dom \in [webgpuCanvas : BOOLEAN, webglCanvas : BOOLEAN]
  /\ theme \in {"dark", "light"}
  /\ pc = "new"
  /\ currentRenderer = "none"
  /\ starfieldInstance = 0
  /\ backends = << >>
  /\ gpuChoice = "none"
  /\ shown = "none"
  /\ opacity = 0
  /\ observing = FALSE
  /\ monitorOn = FALSE
  /\ windows = 0
  /\ pendingFallbacks = 0
  /\ managerDestroyed = FALSE
  /\ frames = 0
  /\ gpuAttempts = 0
  /\ gpuResult = "none"
  /\ cpuResult = "none"
  /\ fallbackWebGLCalls = 0
  /\ fallbackCSSCalls = 0
  /\ NoCounts

Init == ManagerInit /\ NoCompute /\ NoLoneBackend /\ NoWebGL /\ NoFrame

-----------------------------------------------------------------------------
(* GraphicsManager.init and selectRenderer *)

envVars == <<build, batteryApi, dom, theme>>
monitorVars == <<windows, pendingFallbacks, fallbackWebGLCalls, fallbackCSSCalls>>

\* `new WebGPU*field(canvas, this.getSpriteCount())` or
\* `new WebGLStarfield(canvas, {starCount: this.getSpriteCount(), ...})`
\* at some viewport width
Constructs(kind) ==
  \E w \in Widths :
    /\ innerWidth' = w
    /\ starCount' = GetSpriteCount(caps)
    /\ population' = BackendPopulation(kind, GetSpriteCount(caps), w)

\* init() after selectRenderer has returned with tier cr and container sh:
\* setupThemeObserver, setupPerformanceMonitoring
FinishInit(cr, sh) ==
  /\ currentRenderer' = cr
  /\ shown' = sh
  /\ opacity' = Opacity(theme, cr)
  /\ observing' = TRUE
  /\ monitorOn' = MonitorStarts(cr)
  /\ pc' = "done"

\* selectRenderer after the WebGPU block (skipped or failed)
AfterGpuBlock ==
  IF TriesWebGL(build, caps)
    THEN \* initWebGLStarfield runs up to `await import("./webgl-starfield")`
         /\ pc' = "webglImport"
         /\ UNCHANGED <<currentRenderer, shown, opacity, observing, monitorOn>>
    ELSE \* initCSSStarfield
         FinishInit("css", "css")

\* selectRenderer from its start, with capabilities c
SelectRenderer(c) ==
  IF ReducedMotionRule(c) THEN
    /\ FinishInit("none", shown)
    /\ UNCHANGED <<gpuChoice, gpuAttempts, gpuResult>>
  ELSE IF LowBatteryRule(c) THEN
    /\ FinishInit("css", "css")
    /\ UNCHANGED <<gpuChoice, gpuAttempts, gpuResult>>
  ELSE IF GpuRule(build, c) THEN
    \* initWebGPUSpritefield draws, and the chosen initWebGPU*field runs up
    \* to its `await import(...)`
    /\ \E random \in RandomDraws : gpuChoice' = PickVariant(build, random)
    /\ gpuAttempts' = gpuAttempts + 1
    /\ gpuResult' = "pending"
    /\ pc' = "gpuImport"
    /\ UNCHANGED <<currentRenderer, shown, opacity, observing, monitorOn>>
  ELSE
    /\ AfterGpuBlock
    /\ UNCHANGED <<gpuChoice, gpuAttempts, gpuResult>>

\* init() is called: without a battery API selectRenderer starts at once
InitStart ==
  /\ pc = "new"
  /\ IF batteryApi.state # "absent"
       THEN /\ pc' = "battery"
            /\ UNCHANGED <<currentRenderer, shown, opacity, observing, monitorOn,
                           gpuChoice, gpuAttempts, gpuResult>>
       ELSE SelectRenderer(caps)
  /\ UNCHANGED <<caps, starfieldInstance, backends, cpuResult, managerDestroyed,
                 frames>>
  /\ UNCHANGED <<envVars, monitorVars, pvars, cvars, bvars, wvars, fvars>>

\* navigator.getBattery() settles
BatteryResolved ==
  /\ pc = "battery"
  /\ caps' = BatteryStep(caps, batteryApi)
  /\ SelectRenderer(BatteryStep(caps, batteryApi))
  /\ UNCHANGED <<starfieldInstance, backends, cpuResult, managerDestroyed, frames>>
  /\ UNCHANGED <<envVars, monitorVars, pvars, cvars, bvars, wvars, fvars>>

\* the chosen initWebGPU*field and the backend's init() return false (or
\* throw, which selectRenderer catches): selectRenderer goes on
GpuFailed ==
  /\ gpuResult' = "failed"
  /\ AfterGpuBlock

\* import("./webgpu-*field") settles
GpuImportResolved ==
  /\ pc = "gpuImport"
  /\ \E imported \in BOOLEAN :
       IF imported /\ dom.webgpuCanvas
         THEN \* new WebGPU*field(canvas, count); init() runs up to
              \* `await navigator.gpu.requestAdapter()`
              /\ backends' = Append(backends, NewBackend(gpuChoice))
              /\ starfieldInstance' = Len(backends) + 1
              /\ Constructs(gpuChoice)
              /\ pc' = "gpuAdapter"
              /\ UNCHANGED <<currentRenderer, shown, opacity, observing,
                             monitorOn, gpuResult>>
         ELSE /\ GpuFailed
              /\ UNCHANGED <<backends, starfieldInstance>>
              /\ UNCHANGED cvars
  /\ UNCHANGED <<caps, gpuChoice, gpuAttempts, cpuResult, managerDestroyed, frames>>
  /\ UNCHANGED <<envVars, monitorVars, pvars, bvars, wvars, fvars>>

\* navigator.gpu.requestAdapter() settles
GpuAdapterResolved ==
  /\ pc = "gpuAdapter"
  /\ \E adapter \in BOOLEAN :
       IF adapter
         THEN /\ pc' = "gpuDevice"
              /\ UNCHANGED <<currentRenderer, shown, opacity, observing,
                             monitorOn, gpuResult>>
         ELSE GpuFailed
  /\ UNCHANGED <<caps, starfieldInstance, backends, gpuChoice, gpuAttempts,
                 cpuResult, managerDestroyed, frames>>
  /\ UNCHANGED <<envVars, monitorVars, pvars, cvars, bvars, wvars, fvars>>

\* adapter.requestDevice() settles; ok is FALSE when it rejects, when the
\* canvas gives no "webgpu" context or when setupWebGPU or the first render
\* throws before a frame is requested
GpuDeviceResolved ==
  /\ pc = "gpuDevice"
  /\ \E ok \in BOOLEAN :
       IF ok
         THEN /\ backends' = [backends EXCEPT
                   ![starfieldInstance] = GpuInitTail(backends[starfieldInstance])]
              /\ gpuResult' = "ok"
              /\ FinishInit("webgpu", "webgpu")
         ELSE /\ GpuFailed
              /\ UNCHANGED backends
  /\ UNCHANGED <<caps, starfieldInstance, gpuChoice, gpuAttempts, cpuResult,
                 managerDestroyed, frames>>
  /\ UNCHANGED <<envVars, monitorVars, pvars, cvars, bvars, wvars, fvars>>

\* initWebGLStarfield from the settled import on.  Yields the new backends,
\* the new starfieldInstance and the outcome: "ok", "nocanvas" (returns
\* without a backend) or "failed" (the import rejected or init() gave false:
\* initWebGLStarfield throws)
InitWebGLOutcomes ==
  {[backends |-> backends, inst |-> starfieldInstance, result |-> "failed"]}
  \cup
  (IF ~dom.webglCanvas
     THEN {[backends |-> backends, inst |-> starfieldInstance, result |-> "nocanvas"]}
     ELSE {[backends |-> Append(backends, WebGLInit(NewBackend(CpuBackendKind))),
            inst |-> Len(backends) + 1, result |-> "ok"],
           [backends |-> Append(backends, NewBackend(CpuBackendKind)),
            inst |-> Len(backends) + 1, result |-> "failed"]})

\* import("./webgl-starfield") settles inside selectRenderer
WebglImportResolved ==
  /\ pc = "webglImport"
  /\ \E o \in InitWebGLOutcomes :
       /\ backends' = o.backends
       /\ starfieldInstance' = o.inst
       /\ cpuResult' = o.result
       /\ IF Len(o.backends) > Len(backends)
            THEN Constructs(CpuBackendKind) ELSE UNCHANGED cvars
       /\ IF o.result = "ok" THEN FinishInit("webgl", "webgl")
          ELSE IF o.result = "nocanvas" THEN FinishInit("webgl", shown)
          ELSE IF build = "part_003"
            THEN \* nothing catches the error: init() rejects
                 /\ pc' = "rejected"
                 /\ UNCHANGED <<currentRenderer, shown, opacity, observing, monitorOn>>
            ELSE \* caught: initCSSStarfield
                 FinishInit("css", "css")
  /\ UNCHANGED <<caps, gpuChoice, gpuAttempts, gpuResult, managerDestroyed, frames>>
  /\ UNCHANGED <<envVars, monitorVars, pvars, bvars, wvars, fvars>>

-----------------------------------------------------------------------------
(* The performance monitor and the fallbacks *)

\* a frame callback of monitor that completes a 5-second window measuring fps
MonitorWindow ==
  /\ monitorOn
  /\ windows < MaxWindows
  /\ windows' = windows + 1
  /\ \E fps \in FpsSamples :
       LET fb == WindowFallback(fps, currentRenderer) IN
       IF fb = "webgl" THEN
         \* fallbackToWebGL up to the import inside initWebGLStarfield
         /\ backends' = DestroyCurrent(backends, starfieldInstance)
         /\ pendingFallbacks' = pendingFallbacks + 1
         /\ fallbackWebGLCalls' = fallbackWebGLCalls + 1
         /\ UNCHANGED <<shown, fallbackCSSCalls>>
       ELSE IF fb = "css" THEN
         \* fallbackToCSS: initCSSStarfield has no suspension
         /\ backends' = DestroyCurrent(backends, starfieldInstance)
         /\ shown' = "css"
         /\ fallbackCSSCalls' = fallbackCSSCalls + 1
         /\ UNCHANGED <<pendingFallbacks, fallbackWebGLCalls>>
       ELSE
         UNCHANGED <<backends, shown, pendingFallbacks, fallbackWebGLCalls,
                     fallbackCSSCalls>>
  /\ UNCHANGED <<caps, pc, currentRenderer, starfieldInstance, gpuChoice, opacity,
                 observing, monitorOn, managerDestroyed, frames, gpuAttempts,
                 gpuResult, cpuResult>>
  /\ UNCHANGED <<envVars, pvars, cvars, bvars, wvars, fvars>>

\* import("./webgl-starfield") settles inside a fallbackToWebGL
FallbackImportResolved ==
  /\ pendingFallbacks > 0
  /\ pendingFallbacks' = pendingFallbacks - 1
  /\ \E o \in InitWebGLOutcomes :
       /\ backends' = o.backends
       /\ starfieldInstance' = o.inst
       /\ shown' = IF o.result = "ok" THEN "webgl" ELSE shown
       /\ IF Len(o.backends) > Len(backends)
            THEN Constructs(CpuBackendKind) ELSE UNCHANGED cvars
  /\ UNCHANGED <<caps, pc, currentRenderer, gpuChoice, opacity, observing,
                 monitorOn, windows, managerDestroyed, frames, gpuAttempts,
                 gpuResult, cpuResult, fallbackWebGLCalls, fallbackCSSCalls>>
  /\ UNCHANGED <<envVars, pvars, bvars, wvars, fvars>>

-----------------------------------------------------------------------------
(* Events from outside *)

\* data-theme of the root element changes; the selector's observer, once
\* installed, runs updateVisibility
ThemeChange ==
  /\ theme' = IF theme = "dark" THEN "light" ELSE "dark"
  /\ opacity' = IF observing THEN Opacity(theme', currentRenderer) ELSE opacity
  /\ UNCHANGED <<build, batteryApi, dom, caps, pc, currentRenderer,
                 starfieldInstance, backends, gpuChoice, shown, observing,
                 monitorOn, managerDestroyed, frames, gpuAttempts, gpuResult,
                 cpuResult>>
  /\ UNCHANGED <<monitorVars, pvars, cvars, bvars, wvars, fvars>>

\* a window resize event: every attached listener runs
Resize ==
  /\ backends' = [i \in DOMAIN backends |-> BackendResize(backends[i], theme)]
  /\ backends' # backends
  /\ UNCHANGED <<caps, pc, currentRenderer, starfieldInstance, gpuChoice, shown,
                 opacity, observing, monitorOn, managerDestroyed, frames,
                 gpuAttempts, gpuResult, cpuResult>>
  /\ UNCHANGED <<envVars, monitorVars, pvars, cvars, bvars, wvars, fvars>>

\* the browser runs the pending frame callback of backend i
Frame ==
  /\ frames < MaxFrames
  /\ \E i \in DOMAIN backends :
       /\ backends[i].scheduled
       /\ backends' = [backends EXCEPT ![i] = BackendFrame(backends[i])]
  /\ frames' = frames + 1
  /\ UNCHANGED <<caps, pc, currentRenderer, starfieldInstance, gpuChoice, shown,
                 opacity, observing, monitorOn, managerDestroyed, gpuAttempts,
                 gpuResult, cpuResult>>
  /\ UNCHANGED <<envVars, monitorVars, pvars, cvars, bvars, wvars, fvars>>

\* GraphicsManager.destroy()
Destroy ==
  /\ backends' = DestroyCurrent(backends, starfieldInstance)
  /\ managerDestroyed' = TRUE
  /\ (backends' # backends \/ ~managerDestroyed)
  /\ UNCHANGED <<caps, pc, currentRenderer, starfieldInstance, gpuChoice, shown,
                 opacity, observing, monitorOn, frames, gpuAttempts, gpuResult,
                 cpuResult>>
  /\ UNCHANGED <<envVars, monitorVars, pvars, cvars, bvars, wvars, fvars>>

Next ==
  \/ InitStart
  \/ BatteryResolved
  \/ GpuImportResolved
  \/ GpuAdapterResolved
  \/ GpuDeviceResolved
  \/ WebglImportResolved
  \/ MonitorWindow
  \/ FallbackImportResolved
  \/ ThemeChange
  \/ Resize
  \/ Frame
  \/ Destroy

Spec == Init /\ [][Next]_vars

-----------------------------------------------------------------------------
(* A GPU backend on its own: `new WebGPU*field(canvas, count)`, then init(),  *)
(* destroy() and frame callbacks in any order the caller and the browser     *)
(* produce.  Here navigator.gpu may be missing, which the selector rules out *)
(* before it constructs a GPU backend.                                       *)

\* the counts getSpriteCount can hand to the constructor
CountTiers == {GetSpriteCount(c) : c \in TypeCaps}

\* mutant: an exception inside init() escapes it
InitResolvesUncaught(why) ==
  IF why = "started" THEN "true" ELSE IF why = "threw" THEN "rejects" ELSE "false"

\* what init() settles to, by the branch it leaves through: `return true`
\* after render(), `return false` on each guard and in the catch block
InitResolves(why) == IF why = "started" THEN "true" ELSE "false"

LoneInit ==
  /\ \E kind \in GPUKinds : lone = NewBackend(kind)
  /\ navigatorGpu \in BOOLEAN
  /\ innerWidth \in Widths
  /\ starCount \in CountTiers
  /\ population = GpuPopulation(starCount, innerWidth)
  /\ initPc = "new"
  /\ initWhy = "none"
  /\ initResult = "none"
  /\ destroyedAt = "never"
  /\ NoManager
  /\ NoCompute
  /\ NoWebGL
  /\ NoFrame

selectorVars == <<build, caps, batteryApi, dom, theme, pc, currentRenderer,
                  starfieldInstance, backends, gpuChoice, shown, opacity, observing,
                  monitorOn, windows, pendingFallbacks, managerDestroyed,
                  gpuAttempts, gpuResult, cpuResult, fallbackWebGLCalls,
                  fallbackCSSCalls>>

\* init() leaves through branch why
LoneSettles(why) ==
  /\ initPc' = "settled"
  /\ initWhy' = why
  /\ initResult' = InitResolves(why)

\* init() is called: `if (!navigator.gpu) return false`, else it runs up to
\* `await navigator.gpu.requestAdapter()`
LoneInitStart ==
  /\ initPc = "new"
  /\ IF ~navigatorGpu
       THEN LoneSettles("noGpu")
       ELSE /\ initPc' = "adapter"
            /\ initResult' = "pending"
            /\ UNCHANGED initWhy
  /\ UNCHANGED <<lone, navigatorGpu, frames, destroyedAt>>
  /\ UNCHANGED <<selectorVars, pvars, cvars, wvars, fvars>>

\* requestAdapter() settles: with an adapter, with null, or by rejecting
LoneAdapterSettles ==
  /\ initPc = "adapter"
  /\ \E a \in {"adapter", "null", "rejects"} :
       IF a = "adapter"
         THEN /\ initPc' = "device"
              /\ UNCHANGED <<initWhy, initResult>>
         ELSE LoneSettles(IF a = "null" THEN "noAdapter" ELSE "threw")
  /\ UNCHANGED <<lone, navigatorGpu, frames, destroyedAt>>
  /\ UNCHANGED <<selectorVars, pvars, cvars, wvars, fvars>>

\* requestDevice() settles.  The rest of init() has no suspension: it leaves
\* by the catch block when requestDevice rejects or setupWebGPU throws
\* ("threw"), when render throws before its requestAnimationFrame, with the
\* listeners already added ("threwInRender"), by the context guard
\* ("noContext"), or by `return true` after render() ("started")
LoneDeviceSettles ==
  /\ initPc = "device"
  /\ \E o \in {"started", "noContext", "threw", "threwInRender"} :
       /\ lone' = IF o = "started" THEN GpuInitTail(lone)
                  ELSE IF o = "threwInRender" THEN [lone EXCEPT !.listening = TRUE]
                  ELSE lone
       /\ LoneSettles(IF o = "threwInRender" THEN "threw" ELSE o)
  /\ UNCHANGED <<navigatorGpu, frames, destroyedAt>>
  /\ UNCHANGED <<selectorVars, pvars, cvars, wvars, fvars>>

\* the caller calls destroy()
LoneDestroy ==
  /\ lone' = GpuDestroy(lone)
  /\ lone' # lone
  /\ destroyedAt' = IF destroyedAt = "never" THEN initPc ELSE destroyedAt
  /\ UNCHANGED <<navigatorGpu, initPc, initWhy, initResult, frames>>
  /\ UNCHANGED <<selectorVars, pvars, cvars, wvars, fvars>>

\* the browser runs the pending frame callback
LoneFrame ==
  /\ frames < MaxFrames
  /\ lone.scheduled
  /\ lone' = GpuRender(lone)
  /\ frames' = frames + 1
  /\ UNCHANGED <<navigatorGpu, initPc, initWhy, initResult, destroyedAt>>
  /\ UNCHANGED <<selectorVars, pvars, cvars, wvars, fvars>>

LoneNext ==
  \/ LoneInitStart
  \/ LoneAdapterSettles
  \/ LoneDeviceSettles
  \/ LoneDestroy
  \/ LoneFrame

SpecGpu == LoneInit /\ [][LoneNext]_vars

-----------------------------------------------------------------------------
(* A WebGLStarfield on its own, constructed with any options (the observers  *)
(* are enabled by default): init(), then window resizes, theme changes,      *)
(* intersection events, pause(), resume(), setStarCount(), destroy() and     *)
(* frame callbacks in any order.  pending is the set of handles the browser  *)
(* still holds a frame callback for; container says whether the canvas has   *)
(* an ancestor whose id contains "starfield".                                *)

\* options.starCount values a caller passes; 0 stands for an omitted option
StarCountOptions == {0, 400}

\* the constructor
NewGl(opt, w, io, th, cont) ==
  [phase |-> "new", rafId |-> 0, pending |-> {}, isVisible |-> TRUE,
   starCount |-> (IF opt # 0 THEN opt ELSE IF w < 768 THEN 250 ELSE 800),
   stars |-> (IF opt # 0 THEN opt ELSE IF w < 768 THEN 250 ELSE 800),
   constructed |-> (IF opt # 0 THEN opt ELSE IF w < 768 THEN 250 ELSE 800),
   countSet |-> FALSE,
   enableIntersectionObserver |-> io, enableThemeObserver |-> th,
   intersectionObserver |-> FALSE, themeObserver |-> FALSE,
   listening |-> FALSE, destroyed |-> FALSE, container |-> cont]

\* requestAnimationFrame returns a handle no pending callback has
FreshHandle(g) ==
  CHOOSE h \in 1 .. (Cardinality(g.pending) + 2) : h \notin (g.pending \cup {g.rafId})

Request(g) ==
  [g EXCEPT !.rafId = FreshHandle(g), !.pending = @ \cup {FreshHandle(g)}]

\* mutant: start() without its `if (this.rafId > 0) return`
GlStartUnguarded(g) == Request(g)

\* start
GlStart(g) == IF g.rafId > 0 THEN g ELSE Request(g)

\* stop
GlStop(g) ==
  IF g.rafId > 0 THEN [g EXCEPT !.pending = @ \ {g.rafId}, !.rafId = 0] ELSE g

\* shouldAnimate
GlShouldAnimate(g, th) == th = "dark" /\ g.isVisible /\ g.rafId = 0

\* resume, and every `if (this.shouldAnimate()) this.start()`
GlResume(g, th) == IF GlShouldAnimate(g, th) THEN GlStart(g) ELSE g

\* updateVisibility
GlUpdateVisibility(g, th) ==
  IF ~g.container THEN g
  ELSE IF th = "dark" THEN GlResume(g, th)
  ELSE GlStop(g)

\* handleResize at viewport width w
GlHandleResize(g, th, w) ==
  GlResume([GlStop(g) EXCEPT !.stars = IF w < 768 THEN 250 ELSE 800], th)

\* the IntersectionObserver callback for one entry
GlIntersect(g, th, isIntersecting) ==
  IF isIntersecting
    THEN GlResume([g EXCEPT !.isVisible = TRUE], th)
    ELSE GlStop([g EXCEPT !.isVisible = FALSE])

\* init: setupCanvas, setupEventListeners, the observers that are enabled,
\* then start()
GlInitBody(g, th) ==
  LET a == [g EXCEPT !.listening = TRUE,
                     !.intersectionObserver = g.enableIntersectionObserver,
                     !.themeObserver = g.enableThemeObserver,
                     !.phase = "ready"]
      b == IF g.enableThemeObserver THEN GlUpdateVisibility(a, th) ELSE a
  IN GlStart(b)

\* frame: the callback with handle h runs and requests the next one
GlFrameBody(g, h) == Request([g EXCEPT !.pending = @ \ {h}])

\* destroy: stop, disconnect the observers; the resize listener stays, since
\* removeEventListener is handed a fresh handleResize.bind(this)
GlDestroyBody(g) ==
  [GlStop(g) EXCEPT !.intersectionObserver = FALSE, !.themeObserver = FALSE,
                    !.destroyed = TRUE]

\* setStarCount
GlSetStarCount(g, n) == [g EXCEPT !.starCount = n, !.stars = n, !.countSet = TRUE]

WebGLAloneInit ==
  /\ innerWidth \in Widths
  /\ theme \in {"dark", "light"}
  /\ \E opt \in StarCountOptions, io \in BOOLEAN, th \in BOOLEAN, cont \in BOOLEAN :
       gl = NewGl(opt, innerWidth, io, th, cont)
  /\ build = "part_003"
  /\ batteryApi = [state |-> "absent", level |-> 0]
  /\ caps = [isLowEnd |-> FALSE, isMobile |-> FALSE, supportsWebGPU |-> TRUE,
             prefersReducedMotion |-> FALSE, hasGoodGPU |-> FALSE,
             batteryLevel |-> 100]
  /\ dom = [webgpuCanvas |-> TRUE, webglCanvas |-> TRUE]
  /\ pc = "new"
  /\ currentRenderer = "none"
  /\ starfieldInstance = 0
  /\ backends = << >>
  /\ gpuChoice = "none"
  /\ shown = "none"
  /\ opacity = 0
  /\ observing = FALSE
  /\ monitorOn = FALSE
  /\ windows = 0
  /\ pendingFallbacks = 0
  /\ managerDestroyed = FALSE
  /\ frames = 0
  /\ gpuAttempts = 0
  /\ gpuResult = "none"
  /\ cpuResult = "none"
  /\ fallbackWebGLCalls = 0
  /\ fallbackCSSCalls = 0
  /\ starCount = 0
  /\ population = 0
  /\ NoCompute
  /\ NoLoneBackend
  /\ NoFrame

\* what the actions of this section leave alone besides gl, theme,
\* innerWidth and frames
aloneVars == <<build, caps, batteryApi, dom, pc, currentRenderer,
               starfieldInstance, backends, gpuChoice, shown, opacity, observing,
               monitorOn, windows, pendingFallbacks, managerDestroyed,
               gpuAttempts, gpuResult, cpuResult, fallbackWebGLCalls,
               fallbackCSSCalls, starCount, population>>

GlInit ==
  /\ gl.phase = "new"
  /\ gl' = GlInitBody(gl, theme)
  /\ UNCHANGED <<theme, innerWidth, frames>>
  /\ UNCHANGED <<aloneVars, pvars, bvars, fvars>>

\* data-theme changes; the instance's MutationObserver, when connected, runs
\* updateVisibility
GlThemeChange ==
  /\ gl.phase = "ready"
  /\ theme' = IF theme = "dark" THEN "light" ELSE "dark"
  /\ gl' = IF gl.themeObserver THEN GlUpdateVisibility(gl, theme') ELSE gl
  /\ UNCHANGED <<innerWidth, frames>>
  /\ UNCHANGED <<aloneVars, pvars, bvars, fvars>>

\* the IntersectionObserver reports the target as intersecting or not
GlIntersection ==
  /\ gl.phase = "ready"
  /\ gl.intersectionObserver
  /\ \E isIntersecting \in BOOLEAN : gl' = GlIntersect(gl, theme, isIntersecting)
  /\ UNCHANGED <<theme, innerWidth, frames>>
  /\ UNCHANGED <<aloneVars, pvars, bvars, fvars>>

\* the window is resized to width w
GlResize ==
  /\ gl.phase = "ready"
  /\ \E w \in Widths :
       /\ innerWidth' = w
       /\ gl' = IF gl.listening THEN GlHandleResize(gl, theme, w) ELSE gl
  /\ UNCHANGED <<theme, frames>>
  /\ UNCHANGED <<aloneVars, pvars, bvars, fvars>>

GlPause ==
  /\ gl.phase = "ready"
  /\ gl' = GlStop(gl)
  /\ UNCHANGED <<theme, innerWidth, frames>>
  /\ UNCHANGED <<aloneVars, pvars, bvars, fvars>>

GlResumeCalled ==
  /\ gl.phase = "ready"
  /\ gl' = GlResume(gl, theme)
  /\ UNCHANGED <<theme, innerWidth, frames>>
  /\ UNCHANGED <<aloneVars, pvars, bvars, fvars>>

GlSetStarCountCalled ==
  /\ gl.phase = "ready"
  /\ gl' = GlSetStarCount(gl, 100)
  /\ UNCHANGED <<theme, innerWidth, frames>>
  /\ UNCHANGED <<aloneVars, pvars, bvars, fvars>>

GlDestroy ==
  /\ gl.phase = "ready"
  /\ gl' = GlDestroyBody(gl)
  /\ UNCHANGED <<theme, innerWidth, frames>>
  /\ UNCHANGED <<aloneVars, pvars, bvars, fvars>>

\* the browser runs a pending frame callback
GlFrame ==
  /\ frames < MaxFrames
  /\ \E h \in gl.pending : gl' = GlFrameBody(gl, h)
  /\ frames' = frames + 1
  /\ UNCHANGED <<theme, innerWidth>>
  /\ UNCHANGED <<aloneVars, pvars, bvars, fvars>>

WebGLAloneNext ==
  \/ GlInit
  \/ GlThemeChange
  \/ GlIntersection
  \/ GlResize
  \/ GlPause
  \/ GlResumeCalled
  \/ GlSetStarCountCalled
  \/ GlDestroy
  \/ GlFrame

SpecWebGL == WebGLAloneInit /\ [][WebGLAloneNext]_vars

-----------------------------------------------------------------------------
(* The render loop of a GPU backend after a successful init(): every frame  *)
(* writes the uniform buffer and dispatches the compute shader; the pointer *)
(* listener updates this.mousePos in between.  One particle of the          *)
(* population is followed.  Buffers are laid out as WGSL lays out structs:  *)
(* each member at the next multiple of its alignment.                       *)

\* struct Uniforms, the same in the three compute shaders, with the size and
\* alignment WGSL gives f32, vec2<f32> and vec3<f32>
UniformMembers ==
  << [name |-> "time", size |-> 4, align |-> 4],
     [name |-> "resolution", size |-> 8, align |-> 8],
     [name |-> "mousePos", size |-> 8, align |-> 8],
     [name |-> "count", size |-> 4, align |-> 4],
     [name |-> "_padding", size |-> 12, align |-> 16] >>

\* the particle struct of a variant: Star, Snow, Laser
ParticleMembers(v) ==
  IF v = "Starfield"
    THEN << [name |-> "position", size |-> 12, align |-> 16],
            [name |-> "velocity", size |-> 12, align |-> 16],
            [name |-> "life", size |-> 4, align |-> 4],
            [name |-> "size", size |-> 4, align |-> 4] >>
    ELSE << [name |-> "position", size |-> 12, align |-> 16],
            [name |-> "size", size |-> 4, align |-> 4],
            [name |-> "velocity", size |-> 12, align |-> 16],
            [name |-> "life", size |-> 4, align |-> 4],
            [name |-> "color", size |-> 12, align |-> 16],
            [name |-> (IF v = "Snowfield" THEN "_pad" ELSE "twinkle"),
             size |-> 4, align |-> 4] >>

AlignUp(n, a) == ((n + a - 1) \div a) * a

RECURSIVE MemberOffset(_, _)
\* byte offset of member i of a struct
MemberOffset(members, i) ==
  IF i = 1 THEN 0
  ELSE AlignUp(MemberOffset(members, i - 1) + members[i - 1].size, members[i].align)

\* the float index at which the shader reads the member called name
FloatOf(members, name) ==
  LET i == CHOOSE k \in DOMAIN members : members[k].name = name
  IN MemberOffset(members, i) \div 4

\* the array stride of a struct: its size rounded up to its alignment
StructStride(members) ==
  AlignUp(MemberOffset(members, Len(members)) + members[Len(members)].size, 16)

\* what the shader sees in a uniform buffer holding the floats data
ShaderUniforms(data) ==
  [time |-> data[FloatOf(UniformMembers, "time")],
   resolution |-> [width |-> data[FloatOf(UniformMembers, "resolution")],
                   height |-> data[FloatOf(UniformMembers, "resolution") + 1]],
   mousePos |-> [x |-> data[FloatOf(UniformMembers, "mousePos")],
                 y |-> data[FloatOf(UniformMembers, "mousePos") + 1]],
   count |-> data[FloatOf(UniformMembers, "count")]]

\* a canvas size in pixels
Canvas == [width |-> 1280, height |-> 720]

\* render(): the Float32Array(12) written to the uniform buffer.
\* WebGPUStarfield fills floats 0..5; the other two leave float 1 empty
UniformWrite(v, time, canvas, mouse, count) ==
  [k \in 0 .. 11 |->
     IF v = "Starfield"
       THEN (IF k = 0 THEN time ELSE IF k = 1 THEN canvas.width
             ELSE IF k = 2 THEN canvas.height ELSE IF k = 3 THEN mouse.x
             ELSE IF k = 4 THEN mouse.y ELSE IF k = 5 THEN count ELSE 0)
       ELSE (IF k = 0 THEN time ELSE IF k = 2 THEN canvas.width
             ELSE IF k = 3 THEN canvas.height ELSE IF k = 4 THEN mouse.x
             ELSE IF k = 5 THEN mouse.y ELSE IF k = 6 THEN count ELSE 0)]

\* setupWebGPU: the size of the storage buffer in bytes and the length of
\* the initial Float32Array, for a population of n
StorageAllocated(v, n) ==
  IF v = "Starfield" THEN [bytes |-> n * 32, floats |-> n * 8]
                     ELSE [bytes |-> n * 48, floats |-> n * 12]

\* initial particle data: depth inside [0.3, 1.0], x and y within the depth,
\* velocity (0, 0, 0.1 .. 0.15), life 1.0
FrameParticles ==
  {s \in StartParticles :
     /\ s.position.z <= Unit
     /\ Abs(s.position.x) <= s.position.z /\ Abs(s.position.y) <= s.position.z
     /\ s.life = Unit}

FrameInit ==
  /\ variant \in GPUKinds
  /\ innerWidth = 1280
  /\ starCount \in CountTiers
  /\ population = GpuPopulation(starCount, innerWidth)
  /\ storage = StorageAllocated(variant, population)
  /\ index \in {0, population - 1}
  /\ particle \in FrameParticles
  /\ hash \in HashTables
  /\ mousePos = [x |-> 0, y |-> 0]
  /\ uniformData = [k \in 0 .. 11 |-> 0]
  /\ animationId = 0
  /\ uniforms = ShaderUniforms(uniformData)
  /\ prev = particle
  /\ respawned = FALSE
  /\ steps = 0
  /\ respawnLog = << >>
  /\ NoManager
  /\ NoLoneBackend
  /\ NoWebGL

\* `this.animationId = requestAnimationFrame(this.render)`: every request
\* returns a handle other than the one before; two handles tell them apart
NextHandle(h) == IF h = 1 THEN 2 ELSE 1

\* render(): one frame.  steps counts frames up to MaxSteps and then stays
FrameStep ==
  /\ steps' = Min(steps + 1, MaxSteps)
  /\ uniformData' = UniformWrite(variant, steps', Canvas, mousePos, population)
  /\ uniforms' = ShaderUniforms(uniformData')
  /\ prev' = particle
  /\ particle' = ComputeMain(variant, index, particle, uniforms', hash)
  /\ respawned' = Respawns(variant, index, particle, uniforms')
  /\ respawnLog' = Logged(respawnLog, respawned', particle', mousePos)
  /\ animationId' = NextHandle(animationId)
  /\ UNCHANGED <<variant, index, hash, mousePos, storage>>
  /\ UNCHANGED <<mvars, cvars, bvars, wvars>>

\* updateMouse: the pointer moves (explored during the first MaxSteps frames)
FramePointer ==
  /\ steps < MaxSteps
  /\ \E m \in PointerPositions \ {mousePos} : mousePos' = m
  /\ UNCHANGED <<uniformData, storage, animationId>>
  /\ UNCHANGED <<mvars, pvars, cvars, bvars, wvars>>

FrameNext == FrameStep \/ FramePointer

SpecFrame == FrameInit /\ [][FrameNext]_vars

\* the browser keeps delivering frame callbacks to a running render loop
SpecFrameLive == SpecFrame /\ WF_vars(FrameStep)

-----------------------------------------------------------------------------
(* Claims *)

GpuBackends(bs) == {i \in DOMAIN bs : IsGPU(bs[i].kind)}
CpuBackends(bs) == {i \in DOMAIN bs : ~IsGPU(bs[i].kind)}
Scheduled(bs) == {i \in DOMAIN bs : bs[i].scheduled}

\* selectRenderer has read the capabilities
SelectionStarted == pc \notin {"new", "battery"}

\* battery unknown or at least 0.15
BatteryNotLow == caps.batteryLevel = Undefined \/ caps.batteryLevel >= 15

\* C1: with prefersReducedMotion, init() ends with currentRenderer = "none"
\* whatever the other capabilities are; on the way no backend is constructed,
\* no GPU attempt is made and no tier container is shown.
C1_ReducedMotionNone ==
  caps.prefersReducedMotion =>
    /\ pc \in {"new", "battery", "done"}
    /\ currentRenderer = "none"
    /\ backends = << >>
    /\ gpuAttempts = 0
    /\ shown = "none"

C1_Witness ==
  /\ pc = "done"
  /\ caps.prefersReducedMotion
  /\ caps.supportsWebGPU /\ ~caps.isLowEnd /\ ~caps.isMobile
  /\ caps.batteryLevel = 10
  /\ currentRenderer = "none"

\* C2: without reduced motion, a known batteryLevel below 0.15 ends selection
\* in tier css with no GPU attempt and no backend, even with WebGPU support
\* on a device that is not low-end.
C2_LowBatteryCss ==
  (/\ ~caps.prefersReducedMotion
   /\ caps.batteryLevel # Undefined /\ caps.batteryLevel < 15
   /\ SelectionStarted) =>
    /\ pc = "done"
    /\ currentRenderer = "css"
    /\ shown = "css"
    /\ gpuAttempts = 0
    /\ backends = << >>

C2_Witness ==
  /\ pc = "done"
  /\ ~caps.prefersReducedMotion
  /\ caps.batteryLevel = 10
  /\ caps.supportsWebGPU /\ ~caps.isLowEnd
  /\ currentRenderer = "css"

\* C3 (as claimed): at most one backend instance has a frame callback
\* scheduled; a backend on which destroy() was called schedules no further
\* frame; and every backend but the last constructed has had destroy() called.
C3_AtMostOneLive ==
  /\ Cardinality(Scheduled(backends)) <= 1
  /\ \A i \in DOMAIN backends : backends[i].destroyed => ~backends[i].scheduled
  /\ \A i \in DOMAIN backends : i < Len(backends) => backends[i].destroyed

\* C4 (as claimed): in one session fallbackToWebGL is invoked at most once,
\* also when every window measures fewer than 30 frames per second.
C4_DowngradeOnce == fallbackWebGLCalls <= 1

\* the case of C5: desktop, WebGPU supported, not low-end, battery not low,
\* and the GPU attempt of selectRenderer has failed
C5_Case ==
  /\ ~caps.prefersReducedMotion
  /\ BatteryNotLow
  /\ caps.supportsWebGPU /\ ~caps.isLowEnd /\ ~caps.isMobile
  /\ gpuResult = "failed"

\* the CPU 2D backend the selector holds has run init() successfully
CpuInitialized ==
  /\ starfieldInstance \in CpuBackends(backends)
  /\ backends[starfieldInstance].listening

\* C5 (as claimed): in that case selection ends in tier webgl with the CPU 2D
\* backend initialized, and never in tier css.
C5_Original ==
  C5_Case =>
    /\ currentRenderer # "css"
    /\ pc # "webglImport" =>
         (pc = "done" /\ currentRenderer = "webgl" /\ CpuInitialized)

\* C5 (amended): in that case selection goes on to the CPU 2D backend and
\* never takes the css rule directly.  It ends in tier webgl with the backend
\* initialized when the module loads, #webgl-canvas exists and init() gives
\* true; in tier webgl without a backend when the canvas is missing; and when
\* the module load or init() fails, graphics-manager.ts ends in tier css
\* while part_003 lets init() reject with tier none.
C5_GpuFailureOnDesktop ==
  C5_Case =>
    \/ pc = "webglImport" /\ currentRenderer = "none" /\ cpuResult = "none"
    \/ /\ cpuResult = "ok"
       /\ pc = "done" /\ currentRenderer = "webgl" /\ CpuInitialized
    \/ /\ cpuResult = "nocanvas"
       /\ pc = "done" /\ currentRenderer = "webgl" /\ CpuBackends(backends) = {}
    \/ /\ cpuResult = "failed" /\ build = "part_003"
       /\ pc = "rejected" /\ currentRenderer = "none"
    \/ /\ cpuResult = "failed" /\ build = "graphics_manager"
       /\ pc = "done" /\ currentRenderer = "css"

C5_Witness ==
  /\ C5_Case
  /\ cpuResult = "ok"
  /\ pc = "done"
  /\ currentRenderer = "webgl"
  /\ backends[starfieldInstance].scheduled

\* the case of C6: mobile and (no WebGPU or low-end), battery not low
C6_Case ==
  /\ ~caps.prefersReducedMotion
  /\ BatteryNotLow
  /\ caps.isMobile /\ (~caps.supportsWebGPU \/ caps.isLowEnd)
  /\ SelectionStarted

\* C6 (as claimed): in that case selection ends in tier css whatever
\* hasGoodGPU is, and the CPU 2D backend is not constructed.
C6_Original ==
  C6_Case =>
    /\ pc = "done"
    /\ currentRenderer = "css"
    /\ cpuResult = "none"
    /\ backends = << >>

\* C6 (amended): in that case part_003 ends in tier css without constructing
\* the CPU 2D backend, and so does graphics-manager.ts when hasGoodGPU is
\* false; with hasGoodGPU true graphics-manager.ts tries the CPU 2D backend
\* and ends in tier webgl, or in tier css when that backend fails.
C6_MobileCss ==
  C6_Case =>
    IF build = "part_003" \/ ~caps.hasGoodGPU
      THEN /\ pc = "done"
           /\ currentRenderer = "css"
           /\ cpuResult = "none"
           /\ backends = << >>
      ELSE /\ gpuAttempts = 0
           /\ \/ pc = "webglImport" /\ currentRenderer = "none"
              \/ pc = "done" /\ cpuResult \in {"ok", "nocanvas"} /\ currentRenderer = "webgl"
              \/ pc = "done" /\ cpuResult = "failed" /\ currentRenderer = "css"

C6_Witness ==
  /\ C6_Case
  /\ build = "part_003"
  /\ caps.supportsWebGPU /\ caps.isLowEnd
  /\ pc = "done"
  /\ currentRenderer = "css"

\* the case of C7: WebGPU supported, not low-end, battery not low
C7_Case ==
  /\ ~caps.prefersReducedMotion
  /\ BatteryNotLow
  /\ caps.supportsWebGPU /\ ~caps.isLowEnd
  /\ SelectionStarted

\* selectRenderer has entered the WebGPU path, and a backend whose init()
\* gave true leaves tier webgpu
GpuPathTaken ==
  /\ gpuAttempts = 1
  /\ gpuResult # "none"
  /\ pc \in {"gpuAdapter", "gpuDevice"} => Cardinality(GpuBackends(backends)) = 1
  /\ gpuResult = "ok" =>
       /\ pc = "done"
       /\ currentRenderer = "webgpu"
       /\ Cardinality(GpuBackends(backends)) = 1

\* C7 (as claimed): in that case a GPU backend is attempted whatever
\* hasGoodGPU and isMobile are, and when its init() gives true the final tier
\* is webgpu.
C7_Original == C7_Case => GpuPathTaken

\* C7 (amended): in that case part_003 attempts a GPU backend whatever
\* isMobile is; graphics-manager.ts attempts one only when hasGoodGPU is
\* true, and makes no GPU attempt otherwise.  When the backend's init() gives
\* true the final tier is webgpu.
C7_GpuAttempted ==
  C7_Case =>
    IF build = "part_003" \/ caps.hasGoodGPU
      THEN GpuPathTaken
      ELSE gpuAttempts = 0 /\ GpuBackends(backends) = {} /\ currentRenderer # "webgpu"

C7_Witness ==
  /\ C7_Case
  /\ caps.isMobile
  /\ gpuResult = "ok"
  /\ currentRenderer = "webgpu"
  /\ backends[starfieldInstance].scheduled

AdvancedPosition ==
  [x |-> prev.position.x + (prev.velocity.x * 16) \div 1000,
   y |-> prev.position.y + (prev.velocity.y * 16) \div 1000,
   z |-> prev.position.z + (prev.velocity.z * 16) \div 1000]

C10_NoUpgrade ==
  [][/\ Cardinality(GpuBackends(backends')) > Cardinality(GpuBackends(backends)) =>
          (pc = "gpuImport" /\ GpuBackends(backends) = {} /\ gpuResult = "pending")
     /\ gpuAttempts' <= 1
     /\ currentRenderer = "css" => currentRenderer' = "css"
     /\ currentRenderer = "webgl" => currentRenderer' # "webgpu"
     /\ shown = "css" => shown' = "css"
     /\ shown = "webgl" => shown' # "webgpu"]_vars

C10_Witness ==
  /\ gpuResult = "ok"
  /\ fallbackWebGLCalls >= 1
  /\ pendingFallbacks = 0
  /\ shown = "webgl"
  /\ Cardinality(GpuBackends(backends)) = 1
  /\ Cardinality(CpuBackends(backends)) >= 1

C13_InitResolvesBoolean ==
  /\ initResult \in {"none", "pending", "true", "false"}
  /\ initPc = "settled" => initResult \in {"true", "false"}
  /\ initWhy \in {"noGpu", "noAdapter", "noContext", "threw"} =>
       initResult = "false"
  /\ initResult = "false" => (lone.rafId = 0 /\ ~lone.scheduled)
  /\ initResult = "true" => lone.rafId # 0

C13_Witness ==
  /\ initPc = "settled"
  /\ initWhy = "threw"
  /\ lone.listening
  /\ initResult = "false"
  /\ ~lone.scheduled

\* C14 (as claimed): init() of the selector never rejects; when the CPU 2D
\* backend fails to initialize the failure is caught, selection ends with a
\* tier, and the theme observer and the monitor setup have run.
C14_InitNeverRejects ==
  /\ pc # "rejected"
  /\ cpuResult = "failed" =>
       /\ pc = "done"
       /\ currentRenderer \in {"none", "css", "webgl", "webgpu"}
       /\ observing

\* the selector holds a CPU 2D backend that is running
CpuActive ==
  /\ CpuInitialized
  /\ ~backends[starfieldInstance].destroyed

\* C15 (as claimed): while the CPU 2D backend is the active backend the
\* Renderer State is webgl, also after a GPU-to-CPU downgrade, and a window
\* the monitor completes then never calls fallbackToWebGL again.
C15_StateAfterDowngrade ==
  [][(windows' = windows + 1 /\ CpuActive) =>
       (currentRenderer = "webgl" /\ fallbackWebGLCalls' = fallbackWebGLCalls)]_vars

\* C16 (as claimed): with tier css or none no monitor callback is pending;
\* once a downgrade has reached the css tier the monitor has stopped and
\* fallbackToCSS is not called again.
C16_MonitorStops ==
  /\ (pc = "done" /\ currentRenderer \in {"css", "none"}) => ~monitorOn
  /\ fallbackCSSCalls >= 1 => ~monitorOn
  /\ fallbackCSSCalls <= 1

\* C17: once init() has completed, the container's opacity is 1 exactly when
\* the theme is dark and currentRenderer is not none, through every theme
\* change and downgrade.
C17_OpacityFollowsTheme ==
  pc = "done" =>
    /\ (opacity = 1) <=> (theme = "dark" /\ currentRenderer # "none")
    /\ opacity \in {0, 1}

C17_Witness ==
  /\ pc = "done"
  /\ fallbackWebGLCalls >= 1
  /\ theme = "light"
  /\ currentRenderer = "webgpu"
  /\ opacity = 0

\* the variants the running revision of initWebGPUSpritefield can pick
Pickable == {PickVariant(build, r) : r \in DrawRange}

\* C18 (as claimed): for each of Starfield, Snowfield and Laserfield some
\* value of the draw makes selectRenderer construct it.
C18_Original == pc = "gpuImport" => \A v \in GPUKinds : v \in Pickable

\* the two variants a revision of initWebGPUSpritefield chooses between
TwoVariants(bld) ==
  IF bld = "part_003" THEN {"Laserfield", "Snowfield"} ELSE {"Starfield", "Snowfield"}

\* C18 (amended): each revision picks between two variants, Laserfield or
\* Snowfield in part_003 and Starfield or Snowfield in graphics-manager.ts;
\* at the decision point 50 of the 100 values of the draw go to each, and the
\* backend constructed is the variant picked.
C18_VariantSplit ==
  /\ pc = "gpuImport" =>
       /\ Pickable = TwoVariants(build)
       /\ \A v \in Pickable :
            Cardinality({r \in DrawRange : PickVariant(build, r) = v}) = 50
  /\ gpuChoice # "none" => gpuChoice \in TwoVariants(build)
  /\ \A i \in GpuBackends(backends) : backends[i].kind = gpuChoice

C18_Witness ==
  /\ build = "part_003"
  /\ gpuChoice = "Laserfield"
  /\ GpuBackends(backends) # {}
  /\ gpuResult = "ok"

\* C19: the count handed to a backend is 200 on a low-end device, else 400 on
\* a mobile device, else 800; a GPU backend keeps the smaller of that count
\* and 400 (viewport narrower than 768px) or 800, so at most 400 on a narrow
\* viewport and never more than 800.
C19_ParticleCounts ==
  backends # << >> =>
    /\ starCount = (IF caps.isLowEnd THEN 200 ELSE IF caps.isMobile THEN 400 ELSE 800)
    /\ IsGPU(backends[Len(backends)].kind) =>
         /\ population = Min(starCount, IF innerWidth < 768 THEN 400 ELSE 800)
         /\ innerWidth < 768 => population <= 400
         /\ population <= 800

C19_Witness ==
  /\ backends # << >>
  /\ IsGPU(backends[Len(backends)].kind)
  /\ starCount = 800
  /\ innerWidth = 767
  /\ population = 400

\* C20 (as claimed): after the battery step batteryLevel is 1 when the API is
\* missing or its query rejects, and else the level reported, 0 included; a
\* reported level below 0.15 then ends selection in tier css.
C20_BatteryStep ==
  SelectionStarted =>
    /\ caps.batteryLevel =
         (IF batteryApi.state = "resolves" THEN batteryApi.level ELSE 100)
    /\ (/\ batteryApi.state = "resolves" /\ batteryApi.level < 15
        /\ ~caps.prefersReducedMotion) =>
          (pc = "done" /\ currentRenderer = "css")
\* C21 (as claimed): at most one fallback initialization (module load plus
\* init()) is pending at any time, so no two fallbacks interleave.
C21_OneInitInFlight == pendingFallbacks <= 1

\* C22: what a respawn writes (position, velocity, life) depends on the
\* particle index only: any two respawns of one index, whatever the step and
\* the pointer position, write the same position, velocity and life, namely
\* the values the index's hash gives.
C22_RespawnByIndex ==
  /\ \A i, j \in DOMAIN respawnLog :
       /\ respawnLog[i].position = respawnLog[j].position
       /\ respawnLog[i].velocity = respawnLog[j].velocity
       /\ respawnLog[i].life = respawnLog[j].life
  /\ respawned =>
       /\ particle.position = RespawnPosition(variant, hash)
       /\ particle.velocity = RespawnVelocity(hash)
       /\ particle.life = Unit

C22_Witness ==
  /\ Len(respawnLog) = 2
  /\ respawnLog[1].mousePos # respawnLog[2].mousePos
  /\ respawnLog[1].velocity = respawnLog[2].velocity

\* C23 (as claimed): without a setStarCount call the number of particles of
\* a WebGLStarfield stays the count it was constructed with, also across
\* window resizes.
C23_PopulationFixed ==
  (gl.phase # "absent" /\ ~gl.countSet) => gl.stars = gl.constructed

\* C24 (as claimed): with both observers enabled, from init() on a frame
\* callback is pending only under the dark theme with the container visible.
C24_LoopOnlyWhenDarkVisible ==
  (/\ gl.phase = "ready"
   /\ gl.enableIntersectionObserver /\ gl.enableThemeObserver) =>
    (gl.pending # {} => (theme = "dark" /\ gl.isVisible))

\* C29: a WebGLStarfield on which init() was called has at most one frame
\* callback pending, through frames, resizes, theme changes, intersection
\* events, pause, resume and setStarCount; rafId is non-zero exactly when one
\* is pending, and it is that callback's handle.
C29_OnePendingFrame ==
  gl.phase = "ready" =>
    /\ Cardinality(gl.pending) <= 1
    /\ (gl.rafId # 0) <=> (gl.pending # {})
    /\ gl.pending \subseteq {gl.rafId}

C29_Witness ==
  /\ gl.phase = "ready"
  /\ frames >= 1
  /\ gl.countSet
  /\ gl.stars = 250
  /\ gl.pending = {gl.rafId}

\* C25 (as claimed): in every GPU variant each frame's uniform write puts
\* time, canvas size, pointer and particle count where the shader's Uniforms
\* struct reads them, so the shader sees the true count and the particle
\* followed (its index is below the count) is processed.
C25_UniformLayout ==
  [][steps' # steps =>
       /\ uniforms'.time = steps'
       /\ uniforms'.resolution = Canvas
       /\ uniforms'.mousePos = mousePos
       /\ uniforms'.count = population
       /\ ~Skipped(variant, index, uniforms')]_vars

\* C26 (as claimed): the storage buffer has population * stride bytes for a
\* stride between 44 and 48 bytes, the stride of the shader's particle
\* struct, and the initial data has the same stride.
C26_StorageStride ==
  /\ \E stride \in 44 .. 48 : storage.bytes = population * stride
  /\ storage.bytes = population * StructStride(ParticleMembers(variant))
  /\ storage.floats * 4 = storage.bytes

\* C30 (as claimed): in every GPU variant velocity.z stays within
\* [0.1, 0.15] at every frame, and while frames keep being rendered the
\* particle is respawned again and again.
C30_RespawnForever ==
  /\ [](/\ Unit \div 10 <= particle.velocity.z
        /\ particle.velocity.z <= 15 * (Unit \div 100))
  /\ []<>respawned

\* C27 (as claimed): once selection has completed, in every state, also after
\* a downgrade by the monitor, the visible tier container is the one
\* currentRenderer names (none when it names none).  Checked on pages that
\* hold both canvases.
C27_ShownIsCurrent ==
  (pc = "done" /\ dom.webgpuCanvas /\ dom.webglCanvas) => shown = currentRenderer

\* C28 (as claimed): after GraphicsManager.destroy() no step constructs a
\* backend and no step leaves a backend with a frame callback scheduled.
\* Checked from the states where init() has completed, destroy() has been
\* called and no frame callback is scheduled.
C28_QuietAfterDestroy ==
  [][(/\ managerDestroyed
      /\ pc = "done"
      /\ \A i \in DOMAIN backends : ~backends[i].scheduled) =>
       /\ Len(backends') = Len(backends)
       /\ \A i \in DOMAIN backends' : ~backends'[i].scheduled]_vars

====
